---------------------------- MODULE Spec2Model ----------------------------
(***************************************************************************)
(* A model of the oort simulation driver: the radar query                  *)
(* (src/script/rhai/radar.rs), the scenarios (src/simulation/scenario.rs), *)
(* the construction and the render loop of the UI (src/ui/mod.rs) and the  *)
(* bullet test (tests/bullet_test.rs).                                     *)
(*                                                                         *)
(* Vectors are pairs of integers.  The code compares Euclidean norms       *)
(* (f64 square roots); the model compares the squared norms, which orders  *)
(* the same way on the integer points used here (sqrt is strictly          *)
(* increasing on distinct integers far below 2^52).                        *)
(***************************************************************************)
EXTENDS Integers, Sequences, FiniteSets, TLC

VARIABLES
    sim,            \* UI.sim: [ships, bullets, collided, walls]
    scenario,       \* UI.scenario: [kind, on_target_ticks, target], kind the struct behind the trait object
    finished,       \* UI.finished
    quit,           \* UI.quit
    single_steps,   \* UI.single_steps
    paused,         \* UI.paused
    keys_down,      \* UI.keys_down
    keys_ignored,   \* UI.keys_ignored
    physics_time,   \* UI.physics_time minus the wall clock of the latest render call; -(2 * DT + 1)
                    \* stands for every value more than 2 * DT behind the clock
    last,           \* radar specification: the operation on the World that produced this state;
                    \* UI specifications: "new" in the first UI, "select" in one that replaced another
    calls,          \* the latest operation of the UI and the calls it made, in order
    requested,      \* the scenario name the latest UI::new was called with
    ticks_ahead,    \* number of scenario.tick calls minus number of Simulation.step calls
    observed,       \* what the latest scenario.tick saw: "on", "far", "fast" or "none"
    streak,         \* number of latest consecutive scenario.tick calls that saw the ship on target
    advanced,       \* what the latest render call added to UI.physics_time at line 195 (0: nothing)
    scan_by,        \* index in sim.ships of the ship of the latest scan (0: none since the World changed)
    scan_result,    \* the ScanResult of the latest scan
    app,            \* the yew Model: scenario_name, editor text, code storage, and what the
                    \* latest message handler did
    svc,            \* the leaderboard hand-off: posts made, futures queued, requests in flight
    tool,           \* a run of the release tool: arguments, environment, position, commands run
    enemy,          \* two runs of the tutorial05 enemy script, given the same seed and positions
    view            \* UI.zoom and UI.camera_target, and what the latest render call added to UI.tick

vars == <<sim, scenario, finished, quit, single_steps, paused, keys_down, keys_ignored,
          physics_time, last, calls, requested, ticks_ahead, observed, streak, advanced,
          scan_by, scan_result, app, svc, tool, enemy, view>>

uiVars == <<finished, quit, single_steps, paused, keys_down, keys_ignored, physics_time>>
ghostVars == <<calls, requested, ticks_ahead, observed, streak, advanced>>
radarVars == <<scan_by, scan_result>>
hostVars == <<app, svc, tool, enemy>>
coreVars == <<sim, scenario, uiVars, last, ghostVars, radarVars, view>>

(***************************************************************************)
(* Bounds of the model.                                                    *)
(***************************************************************************)
MaxShips == 3
MaxBullets == 1
MaxSteps == 2
MaxKeysDown == 2

(***************************************************************************)
(* Program constants.                                                      *)
(***************************************************************************)
MAX_RADAR_DISTANCE == 3000
TARGET_RADIUS == 50
SPEED_LIMIT == 1
HOLD_TICKS == 120
\* PHYSICS_TICK_LENGTH * 1e3 in the model's unit of time
DT == 2

(***************************************************************************)
(* Vectors.                                                                *)
(***************************************************************************)
Zero == <<0, 0>>

\* squared Euclidean distance: nalgebra::distance(a, b)^2 and (a - b).magnitude()^2
Dist2(a, b) == (a[1] - b[1]) * (a[1] - b[1]) + (a[2] - b[2]) * (a[2] - b[2])

Teams == {0, 1}

\* target is what was written to the ship's controller: <<>> or one point
Ship(class, team, position, velocity) ==
    [class |-> class, team |-> team, position |-> position, velocity |-> velocity,
     target |-> <<>>]

\* Simulation::new(): no ship, no bullet, no wall
EmptySim == [ships |-> <<>>, bullets |-> 0, collided |-> FALSE, walls |-> <<>>]

\* the sequence s without its i-th element
RemoveAt(s, i) == [j \in 1..(Len(s) - 1) |-> IF j < i THEN s[j] ELSE s[j + 1]]

(***************************************************************************)
(* Radar: src/script/rhai/radar.rs                                         *)
(***************************************************************************)
NotFound == [found |-> FALSE, position |-> Zero, velocity |-> Zero]

\* InitialResult with found set
InitialResultFound == [found |-> TRUE, position |-> Zero, velocity |-> Zero]
\* lines 32-36: the result before the loop
InitialResult == [found |-> FALSE, position |-> Zero, velocity |-> Zero]

\* SameTeam without the team test: no ship is skipped
SameTeamNeverSkips(other, own_team) == FALSE
\* line 39: the candidate shares the querying ship's team
SameTeam(other, own_team) == other.team = own_team

\* OutOfRange with the comparison inverted
OutOfRangeInverted(distance2) == distance2 < MAX_RADAR_DISTANCE * MAX_RADAR_DISTANCE
\* line 44: distance > MAX_RADAR_DISTANCE
OutOfRange(distance2) == distance2 > MAX_RADAR_DISTANCE * MAX_RADAR_DISTANCE

\* Better with <= for <: a candidate at the same distance replaces the result
BetterOrEqual(result, distance2, best_distance2) == ~result.found \/ distance2 <= best_distance2
\* Better without the distance comparison: every candidate replaces the result
BetterAlways(result, distance2, best_distance2) == TRUE
\* line 47: !result.found || distance < best_distance
Better(result, distance2, best_distance2) == ~result.found \/ distance2 < best_distance2

RECURSIVE ScanLoop(_, _, _, _, _, _)
\* lines 38-55: the loop over sim.ships from its i-th element on
ScanLoop(ships, i, own_team, own_position, result, best_distance2) ==
    IF i > Len(ships) THEN result
    ELSE LET other == ships[i]
             distance2 == Dist2(own_position, other.position)
         IN  IF SameTeam(other, own_team)
               THEN ScanLoop(ships, i + 1, own_team, own_position, result, best_distance2)
             ELSE IF OutOfRange(distance2)
               THEN ScanLoop(ships, i + 1, own_team, own_position, result, best_distance2)
             ELSE IF Better(result, distance2, best_distance2)
               THEN ScanLoop(ships, i + 1, own_team, own_position,
                             [found |-> TRUE, position |-> other.position,
                              velocity |-> other.velocity],
                             distance2)
             ELSE ScanLoop(ships, i + 1, own_team, own_position, result, best_distance2)

\* scan writing the returned position into the querying ship
scanMovingOwnShip(s, h) ==
    LET r == ScanLoop(s.ships, 1, s.ships[h].team, s.ships[h].position, InitialResult, 0)
    IN  [result |-> r, sim |-> [s EXCEPT !.ships[h].position = r.position]]
\* scan(obj) for the ship at index h: the ScanResult and the Simulation it leaves
scan(s, h) ==
    [result |-> ScanLoop(s.ships, 1, s.ships[h].team, s.ships[h].position, InitialResult, 0),
     sim |-> s]

(***************************************************************************)
(* The World of the radar specification: ships are created, move and are   *)
(* destroyed between scans.                                                *)
(***************************************************************************)
RadarPositions == {<<0, 0>>, <<3000, 0>>, <<0, 3000>>, <<3001, 0>>}
RadarVelocities == {<<0, 0>>, <<1, 0>>}

\* UI.zoom in steps between MIN_ZOOM (0) and MAX_ZOOM (ZoomLevels), and the cells of
\* UI.camera_target on either side of the origin (the outermost stands for all beyond)
ZoomLevels == 2
CameraRange == 1

\* UI::new: zoom between its limits, the camera on the origin, tick 0
ViewNew == [zoom |-> 1, camera_target |-> <<0, 0>>, tick_added |-> 0]

Clamp(x) == IF x > CameraRange THEN CameraRange ELSE IF x < 0 - CameraRange THEN 0 - CameraRange ELSE x

\* UI::render lines 94-112: the camera and zoom keys
Camera(v, keys) ==
    LET y1 == IF "w" \in keys THEN Clamp(v.camera_target[2] + 1) ELSE v.camera_target[2]
        y2 == IF "s" \in keys THEN Clamp(y1 - 1) ELSE y1
        x1 == IF "a" \in keys THEN Clamp(v.camera_target[1] - 1) ELSE v.camera_target[1]
        x2 == IF "d" \in keys THEN Clamp(x1 + 1) ELSE x1
        z1 == IF "z" \in keys /\ v.zoom > 0 THEN v.zoom - 1 ELSE v.zoom
        z2 == IF "x" \in keys /\ z1 < ZoomLevels THEN z1 + 1 ELSE z1
    IN  [v EXCEPT !.camera_target = <<x2, y2>>, !.zoom = z2]

\* the components outside the simulation, where a specification leaves them out
NoGame == [scenario_name |-> "", code |-> "", started |-> FALSE]
AppIdle == [scenario_name |-> "", editor |-> "", storage |-> <<>>, game |-> NoGame,
            sent |-> <<>>, handler |-> "none", pending |-> 0, render_task |-> 0, renders |-> 0]
SvcIdle == [posts |-> 0, queued |-> 0, in_flight |-> 0, requests |-> 0, warnings |-> 0,
            caller |-> "idle"]
ToolIdle == [pc |-> "idle"]
EnemyIdle == [ticks |-> 0]
hostIdle == app = AppIdle /\ svc = SvcIdle /\ tool = ToolIdle /\ enemy = EnemyIdle

uiIdle ==
    /\ scenario = [kind |-> "none", on_target_ticks |-> 0, target |-> Zero]
    /\ finished = FALSE /\ quit = FALSE /\ single_steps = 0 /\ paused = FALSE
    /\ keys_down = {} /\ keys_ignored = {} /\ physics_time = 0
    /\ calls = <<>> /\ requested = "none" /\ ticks_ahead = 0 /\ observed = "none" /\ streak = 0 /\ advanced = 0
    /\ view = ViewNew

\* no simulation, UI or scan in use
coreIdle ==
    /\ sim = EmptySim
    /\ uiIdle
    /\ last = "new"
    /\ scan_by = 0 /\ scan_result = NotFound

InitRadar ==
    /\ coreIdle
    /\ hostIdle

\* ship::create: a new ship is appended to sim.ships
ShipCreate(s, ship) == [s EXCEPT !.ships = Append(@, ship)]

\* a ship destroyed: it is removed from sim.ships
ShipRemove(s, i) == [s EXCEPT !.ships = RemoveAt(@, i)]

\* a ship moved by the physics step
ShipMove(s, i, p, v) == [s EXCEPT !.ships[i].position = p, !.ships[i].velocity = v]

WorldChanged ==
    /\ last' = "world"
    /\ scan_by' = 0 /\ scan_result' = NotFound
    /\ UNCHANGED <<scenario, uiVars, ghostVars, hostVars, view>>

RadarCreate ==
    /\ Len(sim.ships) < MaxShips
    /\ \E t \in Teams, p \in RadarPositions, v \in RadarVelocities :
          sim' = ShipCreate(sim, Ship("fighter", t, p, v))
    /\ WorldChanged

RadarMove ==
    /\ \E i \in 1..Len(sim.ships), p \in RadarPositions :
          sim' = ShipMove(sim, i, p, sim.ships[i].velocity)
    /\ WorldChanged

RadarRemove ==
    /\ \E i \in 1..Len(sim.ships) : sim' = ShipRemove(sim, i)
    /\ WorldChanged

\* the script of the ship at index h calls scan()
Scan ==
    /\ \E h \in 1..Len(sim.ships) :
          LET r == scan(sim, h)
          IN  /\ sim' = r.sim
              /\ scan_result' = r.result
              /\ scan_by' = h
    /\ last' = "scan"
    /\ UNCHANGED <<scenario, uiVars, ghostVars, hostVars, view>>

NextRadar == RadarCreate \/ RadarMove \/ RadarRemove \/ Scan

SpecRadar == InitRadar /\ [][NextRadar]_vars

(***************************************************************************)
(* Scenarios: src/simulation/scenario.rs                                   *)
(***************************************************************************)
Running == "Running"
Finished == "Finished"

Registry == {"basic", "asteroid", "bullet-stress", "welcome",
             "tutorial01", "tutorial02", "tutorial03", "tutorial04"}

\* Translation2::new(200.0, 0.0) of Tutorial02::tick
Tutorial02Target == <<200, 0>>
\* vector![200.0, 0.0] of Tutorial02::init
Tutorial02InitTarget == <<200, 0>>

\* Tutorial03::new and Tutorial04::new draw the target from [-500, 500)^2
RandomTargets == {<<230, 40>>, <<-120, 300>>}

\* the structs that implement Scenario
Kinds == {"BasicScenario", "AsteroidScenario", "BulletStressScenario", "WelcomeScenario",
          "Tutorial01", "Tutorial02", "Tutorial03", "Tutorial04"}

\* a scenario without bookkeeping (the unit structs) and the UI's scenario where there is none
Plain(kind) == [kind |-> kind, on_target_ticks |-> 0, target |-> Zero]

\* ScenarioName with the key of BulletStressScenario spelled with an underscore
ScenarioNameUnderscore(scn) ==
    CASE scn.kind = "BasicScenario" -> "basic"
      [] scn.kind = "AsteroidScenario" -> "asteroid"
      [] scn.kind = "BulletStressScenario" -> "bullet_stress"
      [] scn.kind = "WelcomeScenario" -> "welcome"
      [] scn.kind = "Tutorial01" -> "tutorial01"
      [] scn.kind = "Tutorial02" -> "tutorial02"
      [] scn.kind = "Tutorial03" -> "tutorial03"
      [] scn.kind = "Tutorial04" -> "tutorial04"
\* scenario.name(): the literal each impl returns
ScenarioName(scn) ==
    CASE scn.kind = "BasicScenario" -> "basic"
      [] scn.kind = "AsteroidScenario" -> "asteroid"
      [] scn.kind = "BulletStressScenario" -> "bullet-stress"
      [] scn.kind = "WelcomeScenario" -> "welcome"
      [] scn.kind = "Tutorial01" -> "tutorial01"
      [] scn.kind = "Tutorial02" -> "tutorial02"
      [] scn.kind = "Tutorial03" -> "tutorial03"
      [] scn.kind = "Tutorial04" -> "tutorial04"

\* the match of load(name): the scenarios an arm may construct, none for the panicking arm
Constructed(name) ==
    CASE name = "basic" -> {Plain("BasicScenario")}
      [] name = "asteroid" -> {Plain("AsteroidScenario")}
      [] name = "bullet-stress" -> {Plain("BulletStressScenario")}
      [] name = "welcome" -> {Plain("WelcomeScenario")}
      [] name = "tutorial01" -> {Plain("Tutorial01")}
      [] name = "tutorial02" -> {Plain("Tutorial02")}
      [] name = "tutorial03" -> {[Plain("Tutorial03") EXCEPT !.target = t] : t \in RandomTargets}
      [] name = "tutorial04" -> {[Plain("Tutorial04") EXCEPT !.target = t] : t \in RandomTargets}
      [] OTHER -> {}

\* load that falls back to the asteroid scenario for an unknown name and asserts nothing
LoadOutcomesFallingBack(name) ==
    IF Constructed(name) = {} THEN Constructed("asteroid") ELSE Constructed(name)
\* load(name): the scenarios load can return; none when it panics, on the
\* unknown name (line 83) or on the assertion of line 85
LoadOutcomes(name) == {scn \in Constructed(name) : ScenarioName(scn) = name}

Fighter(position) == Ship("fighter", 0, position, Zero)
Asteroid(position) == Ship("asteroid", 0, position, Zero)

(***************************************************************************)
(* Walls.  A translation is in units of WORLD_SIZE / 2, a rotation in      *)
(* units of PI / 2; a bitmask of collision groups is the set of its groups.*)
(***************************************************************************)
WALL_COLLISION_GROUP == "wall"
SHIP_COLLISION_GROUP == "ship"
BULLET_COLLISION_GROUP == "bullet"

\* make_edge whose collider also accepts contacts with the wall group
make_edge_filtering_walls(x, y, a) ==
    [body |-> "static", translation |-> <<x, y>>, rotation |-> a,
     colliders |-> <<[restitution |-> 1,
                      memberships |-> {WALL_COLLISION_GROUP},
                      filter |-> {SHIP_COLLISION_GROUP, BULLET_COLLISION_GROUP,
                                  WALL_COLLISION_GROUP}]>>]
\* the closure make_edge of add_walls: one static body with one collider
make_edge(x, y, a) ==
    [body |-> "static", translation |-> <<x, y>>, rotation |-> a,
     colliders |-> <<[restitution |-> 1,
                      memberships |-> {WALL_COLLISION_GROUP},
                      filter |-> {SHIP_COLLISION_GROUP, BULLET_COLLISION_GROUP}]>>]

\* add_walls(sim)
add_walls(s) ==
    [s EXCEPT !.walls = @ \o <<make_edge(0, 1, 0), make_edge(0, -1, 2),
                               make_edge(1, 0, 1), make_edge(-1, 0, 3)>>]

\* InteractionGroups::test: two colliders may touch when each one's
\* memberships meet the other's filter
Interacts(c, d) ==
    /\ c.memberships \cap d.filter # {}
    /\ d.memberships \cap c.filter # {}

\* the loops of AsteroidScenario::init and WelcomeScenario::init: n asteroids at
\* random places with random velocities are created in each Simulation of S
RECURSIVE CreateAsteroids(_, _, _)
CreateAsteroids(S, n, E) ==
    IF n = 0 THEN S
    ELSE CreateAsteroids(
             {ShipCreate(s, Ship("asteroid", 0, p, v)) :
                 s \in S, p \in E.P \cup {Zero}, v \in E.V \cup {Zero}},
             n - 1, E)

\* bullet::create in the loop of BulletStressScenario::init
BulletCreate(s, E) == [s EXCEPT !.bullets = IF @ < E.B THEN @ + 1 ELSE @]

\* WriteTarget that writes to no controller
WriteTargetNever(s, t) == s
\* the `if let` of Tutorial02::init, Tutorial03::init and Tutorial04::init:
\* write_target on the controller of the first ship, if there is one
WriteTarget(s, t) ==
    IF Len(s.ships) > 0 THEN [s EXCEPT !.ships[1].target = <<t>>] ELSE s

\* scenario.init(sim): the Simulations it may leave.  The loops of 1000 and 100
\* random creations run as far as MaxShips and E.B allow.
ScenarioInit(scn, s, E) ==
    CASE scn.kind = "BasicScenario" ->
           {ShipCreate(ShipCreate(add_walls(s), Fighter(<<-100, 0>>)), Fighter(<<100, 0>>))}
      [] scn.kind \in {"AsteroidScenario", "WelcomeScenario"} ->
           CreateAsteroids({ShipCreate(add_walls(s), Fighter(Zero))}, MaxShips - 1, E)
      [] scn.kind = "BulletStressScenario" ->
           {BulletCreate(ShipCreate(add_walls(s), Fighter(Zero)), E)}
      [] scn.kind = "Tutorial01" ->
           {ShipCreate(ShipCreate(s, Fighter(Zero)), Asteroid(<<100, 0>>))}
      [] scn.kind = "Tutorial02" ->
           {WriteTarget(ShipCreate(s, Fighter(Zero)), Tutorial02InitTarget)}
      [] scn.kind = "Tutorial03" ->
           {WriteTarget(ShipCreate(s, Fighter(Zero)), scn.target)}
      [] scn.kind = "Tutorial04" ->
           {ShipCreate(WriteTarget(ShipCreate(s, Fighter(Zero)), scn.target),
                       Asteroid(scn.target))}

\* the condition of Tutorial02::tick and Tutorial03::tick
OnTarget(ship, target) ==
    /\ Dist2(ship.position, target) < TARGET_RADIUS * TARGET_RADIUS
    /\ Dist2(ship.velocity, Zero) < SPEED_LIMIT * SPEED_LIMIT

\* HoldTick that counts a tick without a ship as a tick on target
HoldTickCountingWithoutShip(scn, s, target) ==
    IF Len(s.ships) > 0 /\ ~OnTarget(s.ships[1], target)
      THEN [scn EXCEPT !.on_target_ticks = 0]
      ELSE [scn EXCEPT !.on_target_ticks = @ + 1]
\* HoldTick without its else branch: the streak is never reset
HoldTickWithoutReset(scn, s, target) ==
    IF Len(s.ships) > 0 /\ OnTarget(s.ships[1], target)
      THEN [scn EXCEPT !.on_target_ticks = @ + 1]
      ELSE scn
\* Tutorial02::tick and Tutorial03::tick, which differ in the target only
HoldTick(scn, s, target) ==
    IF Len(s.ships) > 0
      THEN IF OnTarget(s.ships[1], target)
             THEN [scn EXCEPT !.on_target_ticks = @ + 1]
             ELSE [scn EXCEPT !.on_target_ticks = 0]
      ELSE scn

\* scenario.tick(sim): the scenario after the call (no tick changes the Simulation)
ScenarioTick(scn, s) ==
    CASE scn.kind = "Tutorial02" -> HoldTick(scn, s, Tutorial02Target)
      [] scn.kind = "Tutorial03" -> HoldTick(scn, s, scn.target)
      [] OTHER -> scn

\* HoldStatus comparing with 0 instead of 120
HoldStatusAfterOneTick(scn) == IF scn.on_target_ticks > 0 THEN Finished ELSE Running
\* Tutorial02::status and Tutorial03::status
HoldStatus(scn) == IF scn.on_target_ticks > HOLD_TICKS THEN Finished ELSE Running

\* ScenarioStatus whose hold-position scenarios never finish without a ship
ScenarioStatusNeedingShip(scn, s) ==
    CASE scn.kind \in {"BasicScenario", "AsteroidScenario", "Tutorial01", "Tutorial04"} ->
           IF Len(s.ships) > 1 THEN Running ELSE Finished
      [] scn.kind \in {"Tutorial02", "Tutorial03"} ->
           IF Len(s.ships) = 0 THEN Running ELSE HoldStatus(scn)
      [] OTHER -> Running
\* n of Tutorial02::lines and Tutorial03::lines: the segments of the ring
RING_SEGMENTS == 20
\* the 120.0 of on_target_frac in Tutorial02::lines and Tutorial03::lines
RING_TICKS == 120

\* HoldLines whose segment is green from its own fraction on (>= for >)
HoldLinesGreenFromStart(scn) ==
    [i \in 1..RING_SEGMENTS |->
        IF scn.on_target_ticks * RING_SEGMENTS >= (i - 1) * RING_TICKS THEN "green" ELSE "red"]
\* Tutorial02::lines and Tutorial03::lines, the colours: segment i (from 0) is
\* green when on_target_ticks / 120 > i / n.  Both quotients are correctly
\* rounded f64 divisions of small integers, so they compare as the exact
\* fractions do, and these compare as the cross products.
HoldLines(scn) ==
    [i \in 1..RING_SEGMENTS |->
        IF scn.on_target_ticks * RING_SEGMENTS > (i - 1) * RING_TICKS THEN "green" ELSE "red"]

\* scenario.lines(): the colours of the overlay segments
ScenarioLines(scn) ==
    IF scn.kind \in {"Tutorial02", "Tutorial03"} THEN HoldLines(scn) ELSE <<>>

\* scenario.status(sim)
ScenarioStatus(scn, s) ==
    CASE scn.kind \in {"BasicScenario", "AsteroidScenario", "Tutorial01", "Tutorial04"} ->
           IF Len(s.ships) > 1 THEN Running ELSE Finished
      [] scn.kind \in {"Tutorial02", "Tutorial03"} -> HoldStatus(scn)
      [] OTHER -> Running

(***************************************************************************)
(* The Simulation as the UI drives it.  An environment E bounds what a     *)
(* specification lets happen: E.P and E.V are the positions and velocities *)
(* the physics may give a ship, E.B the number of bullets that may be in   *)
(* flight, E.frames the wall-clock times between two render calls, E.keys  *)
(* the keys the user presses and E.names the scenarios that are loaded.    *)
(***************************************************************************)
Max(a, b) == IF a >= b THEN a ELSE b
Min(a, b) == IF a <= b THEN a ELSE b

\* ShipAccessorMut::accelerate on the first ship: the velocities it may leave
Accelerate(s, E) ==
    {[s EXCEPT !.ships[1].velocity = v] : v \in E.V \cup {s.ships[1].velocity}}

\* FireWeapon with recoil: the shot changes the velocity of the firing ship
FireWeaponWithRecoil(s, E) ==
    {[s EXCEPT !.bullets = Min(@ + 1, Max(@, E.B)), !.ships[1].velocity = v] : v \in E.V}
\* ShipAccessorMut::fire_weapon(0): a bullet is spawned unless the weapon is on cooldown
FireWeapon(s, E) == {s, [s EXCEPT !.bullets = Min(@ + 1, Max(@, E.B))]}

\* ShipAccessorMut::explode on the first ship: it is destroyed and the collision flag set
Explode(s) == [ShipRemove(s, 1) EXCEPT !.collided = TRUE]

\* UI::render lines 137-179 for a Simulation with a ship: the Simulations that
\* the keys held down may leave (torque changes no position and no velocity)
KeyboardControl(s, keys, E) ==
    LET accelerating ==
            \/ "ArrowUp" \in keys
            \/ "ArrowDown" \in keys
            \/ ("ArrowLeft" \in keys /\ "Shift" \in keys)
            \/ ("ArrowRight" \in keys /\ "Shift" \in keys)
        s1 == IF accelerating THEN Accelerate(s, E) ELSE {s}
        s2 == IF "f" \in keys THEN UNION {FireWeapon(x, E) : x \in s1} ELSE s1
        s3 == IF "Shift" \in keys /\ "f" \in keys
                THEN UNION {FireWeapon(x, E) : x \in s2} ELSE s2
    IN  IF "Shift" \in keys /\ "k" \in keys THEN {Explode(x) : x \in s3} ELSE s3

\* what one physics step may make of one ship: it moves, or it is destroyed
ShipOutcomes(ship, E) ==
    {[alive |-> TRUE, ship |-> [ship EXCEPT !.position = p, !.velocity = v]] :
        p \in E.P \cup {ship.position}, v \in E.V \cup {ship.velocity}}
    \cup {[alive |-> FALSE, ship |-> ship]}

\* Simulation::step: the Simulations one physics tick may leave
StepOutcomes(s, E) ==
    LET n == Len(s.ships)
        all == UNION {ShipOutcomes(s.ships[i], E) : i \in 1..n}
        fates == {f \in [1..n -> all] : \A i \in 1..n : f[i] \in ShipOutcomes(s.ships[i], E)}
        Survivors(f) == LET live == SelectSeq(f, LAMBDA x : x.alive)
                        IN  [i \in 1..Len(live) |-> live[i].ship]
    IN  {[ships |-> Survivors(f), bullets |-> b, collided |-> c, walls |-> s.walls] :
            f \in fates, b \in 0..Max(E.B, s.bullets), c \in {s.collided, TRUE}}

\* Advance without the call of scenario.tick
AdvanceWithoutTick(scn, s) == [scenario |-> scn, calls |-> <<"step">>]
\* UI::render lines 193-194 up to the physics: scenario.tick, then Simulation.step
Advance(scn, s) == [scenario |-> ScenarioTick(scn, s), calls |-> <<"tick", "step">>]

\* Run without the test of finished: the driver goes on after the scenario has finished
RunAlthoughFinished(finished1, paused1, steps1) == ~paused1 \/ steps1 > 0
\* Run with the parentheses misplaced: a pending single step runs although finished
RunOnPendingSteps(finished1, paused1, steps1) == (~finished1 /\ ~paused1) \/ steps1 > 0
\* UI::render line 189: !self.finished && (!self.paused || self.single_steps > 0)
Run(finished1, paused1, steps1) == ~finished1 /\ (~paused1 \/ steps1 > 0)

\* what a tick of a hold-position scenario sees of the controlled ship: none, or a ship on target,
\* far (outside the target radius) or fast (inside it, at or above the speed limit)
Observation(scn, s) ==
    LET target == IF scn.kind = "Tutorial02" THEN Tutorial02Target ELSE scn.target
    IN  IF scn.kind \notin {"Tutorial02", "Tutorial03"} \/ Len(s.ships) = 0 THEN "none"
        ELSE IF Dist2(s.ships[1].position, target) >= TARGET_RADIUS * TARGET_RADIUS THEN "far"
        ELSE IF Dist2(s.ships[1].velocity, Zero) >= SPEED_LIMIT * SPEED_LIMIT THEN "fast"
        ELSE "on"

Count(seq, x) == Cardinality({i \in 1..Len(seq) : seq[i] = x})

\* UINew that never calls scenario.init
UINewWithoutInit(name, E) ==
    IF LoadOutcomes(name) = {}
      THEN {[sim |-> EmptySim, scenario |-> Plain("none"),
             calls |-> <<"new", "Simulation::new", "load", "panic">>]}
      ELSE {[sim |-> EmptySim, scenario |-> scn,
             calls |-> <<"new", "Simulation::new", "load">>] : scn \in LoadOutcomes(name)}
\* UI::new(name) up to the struct literal: Simulation::new (line 44), load
\* (line 53) and init (line 54).  A panic of load unwinds out of UI::new with
\* the Simulation of line 44 as it is then; no UI is built.
UINew(name, E) ==
    IF LoadOutcomes(name) = {}
      THEN {[sim |-> EmptySim, scenario |-> Plain("none"),
             calls |-> <<"new", "Simulation::new", "load", "panic">>]}
      ELSE UNION {{[sim |-> s, scenario |-> scn,
                    calls |-> <<"new", "Simulation::new", "load", "init">>] :
                      s \in ScenarioInit(scn, EmptySim, E)} : scn \in LoadOutcomes(name)}

\* the program has panicked: no operation of the UI runs any more
Panicked == Len(calls) > 0 /\ calls[Len(calls)] = "panic"

\* UI::new(name), the first of the program
InitUI(E) ==
    /\ \E name \in E.names : \E u \in UINew(name, E) :
          /\ requested = name
          /\ scenario = u.scenario
          /\ sim = u.sim
          /\ calls = u.calls
    /\ finished = FALSE /\ quit = FALSE /\ single_steps = 0 /\ paused = FALSE
    /\ keys_down = {} /\ keys_ignored = {} /\ physics_time = 0
    /\ ticks_ahead = 0 /\ observed = "none" /\ streak = 0 /\ advanced = 0
    /\ view = ViewNew
    /\ last = "new"
    /\ scan_by = 0 /\ scan_result = NotFound
    /\ hostIdle

\* UI::new that keeps the Simulation of the UI it replaces
NewKeepingSimulation(E) ==
    /\ ~Panicked
    /\ \E name \in E.names : \E u \in UINew(name, E) :
          /\ u.scenario.kind # "none"
          /\ requested' = name
          /\ scenario' = u.scenario
          /\ sim' \in ScenarioInit(u.scenario, sim, E)
          /\ calls' = u.calls
    /\ finished' = FALSE /\ quit' = FALSE /\ single_steps' = 0 /\ paused' = FALSE
    /\ keys_down' = {} /\ keys_ignored' = {} /\ physics_time' = 0
    /\ ticks_ahead' = 0 /\ observed' = "none" /\ streak' = 0 /\ advanced' = 0
    /\ last' = "select"
    /\ view' = ViewNew
    /\ UNCHANGED <<radarVars, hostVars>>
\* UI::new(name) when a scenario is selected: the new UI replaces the one in use
New(E) ==
    /\ ~Panicked
    /\ \E name \in E.names : \E u \in UINew(name, E) :
          /\ requested' = name
          /\ scenario' = u.scenario
          /\ sim' = u.sim
          /\ calls' = u.calls
    /\ finished' = FALSE /\ quit' = FALSE /\ single_steps' = 0 /\ paused' = FALSE
    /\ keys_down' = {} /\ keys_ignored' = {} /\ physics_time' = 0
    /\ ticks_ahead' = 0 /\ observed' = "none" /\ streak' = 0 /\ advanced' = 0
    /\ last' = "select"
    /\ view' = ViewNew
    /\ UNCHANGED <<radarVars, hostVars>>

\* UI::on_key_event, keydown
KeyDown(E) ==
    /\ ~Panicked
    /\ \E k \in E.keys \ keys_down :
          /\ Cardinality(keys_down) < MaxKeysDown
          /\ k = "n" => single_steps < MaxSteps
          /\ keys_down' = keys_down \cup {k}
    /\ calls' = <<"on_key_event">>
    /\ UNCHANGED <<sim, scenario, finished, quit, single_steps, paused, keys_ignored,
                   physics_time, last, requested, ticks_ahead, observed, streak, advanced,
                   radarVars, hostVars, view>>

\* UI::on_key_event, keyup
KeyUp(E) ==
    /\ ~Panicked
    /\ \E k \in keys_down :
          /\ keys_down' = keys_down \ {k}
          /\ keys_ignored' = keys_ignored \ {k}
    /\ calls' = <<"on_key_event">>
    /\ UNCHANGED <<sim, scenario, finished, quit, single_steps, paused,
                   physics_time, last, requested, ticks_ahead, observed, streak, advanced,
                   radarVars, hostVars, view>>

\* Due by the clock alone: a single step waits until a tick length has passed
DueByClock(steps1, pt, dt, now) == pt + dt < now
\* UI::render line 192: self.single_steps > 0 || self.physics_time + dt < now
Due(steps1, pt, dt, now) == steps1 > 0 \/ pt + dt < now

\* Pressed without the test of keys_ignored: the key acts in every call while it is down
PressedWhileDown(k, down, ignored) == k \in down
\* UI::render lines 113, 122 and 127: the key is down and has not acted since it went down
Pressed(k, down, ignored) == k \in down /\ k \notin ignored

\* a render call that never returns at its first statement
ReturnsNever(quit1) == FALSE
\* UI::render lines 81-83: if self.quit { return; }
ReturnsAtOnce(quit1) == quit1

\* Delta taken from the wall clock: the time since the previous render call
DeltaFromClock(now) == now
\* UI::render line 190: dt, the same in every frame whatever the wall clock says
Delta(now) == DT

\* Controls that ignores the pause
ControlsWhilePaused(paused1, s) == Len(s.ships) > 0
\* UI::render lines 137-138: the keys control the first ship, if there is one,
\* unless the driver is paused
Controls(paused1, s) == ~paused1 /\ Len(s.ships) > 0

\* ResetCollided that leaves the flag as the step set it
ResetCollidedNever(s) == s
\* UI::render lines 209-212: the collision flag is cleared after the renderer ran
ResetCollided(s) == [s EXCEPT !.collided = FALSE]

\* UI::render.  The wall clock is measured from the previous render call, so
\* `now` is the time since then.  Every physics_time more than 2 * DT behind
\* the clock is stored as 2 * DT + 1 behind: line 191 raises it to 2 * DT behind
\* before any read.
Render(E) ==
    /\ ~Panicked
    /\ IF ReturnsAtOnce(quit)
      THEN /\ calls' = <<"render">>
           /\ advanced' = 0
           /\ view' = [view EXCEPT !.tick_added = 0]
           /\ UNCHANGED <<sim, scenario, uiVars, last, requested, ticks_ahead, observed, streak,
                          radarVars, hostVars>>
      ELSE \E now \in E.frames :
           LET u == Pressed("u", keys_down, keys_ignored)
               space == Pressed(" ", keys_down, keys_ignored)
               n == Pressed("n", keys_down, keys_ignored)
               ignored1 == keys_ignored \cup (IF u THEN {"u"} ELSE {})
                                       \cup (IF space THEN {" "} ELSE {})
                                       \cup (IF n THEN {"n"} ELSE {})
               paused1 == IF n THEN TRUE ELSE IF space THEN ~paused ELSE paused
               steps0 == IF space THEN 0 ELSE single_steps
               steps1 == IF n THEN steps0 + 1 ELSE steps0
               quit1 == "q" \in keys_down
               controlled == IF Controls(paused1, sim)
                               THEN KeyboardControl(sim, keys_down, E) ELSE {sim}
           IN  \E s1 \in controlled :
               LET dt == Delta(now)
                   pt1 == IF paused1 THEN now ELSE physics_time
                   finished1 == finished \/ ScenarioStatus(scenario, s1) = Finished
                   run == Run(finished1, paused1, steps1)
                   pt2 == IF run THEN Max(pt1, now - dt * 2) ELSE pt1
                   advance == run /\ Due(steps1, pt2, dt, now)
                   a == IF advance THEN Advance(scenario, s1)
                                   ELSE [scenario |-> scenario, calls |-> <<>>]
                   stepped == "step" \in {a.calls[i] : i \in 1..Len(a.calls)}
                   ticked == "tick" \in {a.calls[i] : i \in 1..Len(a.calls)}
                   pt3 == IF advance THEN pt2 + dt ELSE pt2
                   steps2 == IF run /\ steps1 > 0 THEN steps1 - 1 ELSE steps1
                   obs == Observation(scenario, s1)
               IN  \E s2 \in (IF stepped THEN StepOutcomes(s1, E) ELSE {s1}) :
                   /\ sim' = ResetCollided(s2)
                   /\ scenario' = a.scenario
                   /\ finished' = finished1
                   /\ quit' = quit1
                   /\ single_steps' = steps2
                   /\ paused' = paused1
                   /\ keys_ignored' = ignored1
                   /\ physics_time' = Max(pt3 - now, 0 - (2 * DT + 1))
                   /\ advanced' = pt3 - pt2
                   /\ view' = [Camera(view, keys_down) EXCEPT !.tick_added = 1]
                   /\ calls' = <<"render">>
                                \o (IF u THEN <<"println">> ELSE <<>>)
                                \o (IF finished THEN <<>> ELSE <<"status">>)
                                \o a.calls \o <<"renderer.render">>
                   /\ ticks_ahead' = ticks_ahead + Count(a.calls, "tick") - Count(a.calls, "step")
                   /\ observed' = IF ticked THEN obs ELSE observed
                   /\ streak' = IF ~ticked THEN streak
                                 ELSE IF obs = "on" THEN streak + 1 ELSE 0
                   /\ UNCHANGED <<keys_down, last, requested, radarVars, hostVars>>

(***************************************************************************)
(* The hold-position scenarios under the driver.                           *)
(***************************************************************************)
HoldEnv ==
    [names |-> {"tutorial02", "tutorial03"},
     P |-> {<<200, 0>>, <<230, 40>>},
     V |-> {<<0, 0>>, <<1, 0>>},
     B |-> 0,
     frames |-> {3},
     keys |-> {"n", "k", "Shift"}]

InitHold == InitUI(HoldEnv)
KeyDownHold == KeyDown(HoldEnv)
KeyUpHold == KeyUp(HoldEnv)
RenderHold == Render(HoldEnv)
NextHold == KeyDownHold \/ KeyUpHold \/ RenderHold
SpecHold == InitHold /\ [][NextHold]_vars

(***************************************************************************)
(* The driver with its pause, single-step, quit and ship-control keys.     *)
(***************************************************************************)
UIEnv ==
    [names |-> {"tutorial01"},
     P |-> {},
     V |-> {<<1, 0>>},
     B |-> MaxBullets,
     frames |-> {1, 3},
     keys |-> {" ", "n", "q", "k", "f", "ArrowUp", "Shift"}]

InitDriver == InitUI(UIEnv)
KeyDownDriver == KeyDown(UIEnv)
KeyUpDriver == KeyUp(UIEnv)
RenderDriver == Render(UIEnv)
NextDriver == KeyDownDriver \/ KeyUpDriver \/ RenderDriver
SpecDriver == InitDriver /\ [][NextDriver]_vars

(***************************************************************************)
(* Sessions: scenarios are selected one after the other, by any name.      *)
(***************************************************************************)
SessionEnv ==
    [names |-> Registry \cup {"nonesuch"},
     P |-> {},
     V |-> {},
     B |-> MaxBullets,
     frames |-> {3},
     keys |-> {"n"}]

InitSession == InitUI(SessionEnv)
NewSession == New(SessionEnv)
KeyDownSession == KeyDown(SessionEnv)
KeyUpSession == KeyUp(SessionEnv)
RenderSession == Render(SessionEnv)
NextSession == NewSession \/ KeyDownSession \/ KeyUpSession \/ RenderSession
SpecSession == InitSession /\ [][NextSession]_vars

(***************************************************************************)
(* src/tests/bullet_test.rs: a Simulation without UI and without scenario, *)
(* two ships, shots of the first ship and physics steps in any order.      *)
(***************************************************************************)
FireEnv ==
    [names |-> {},
     P |-> {<<0, 0>>},
     V |-> {<<1, 0>>, <<0, 1>>},
     B |-> MaxBullets,
     frames |-> {},
     keys |-> {}]

\* Simulation::add_ship(x, y, vx, vy, h)
AddShip(s, x, y, vx, vy) == ShipCreate(s, Ship("fighter", 0, <<x, y>>, <<vx, vy>>))

\* test_hit lines 5-8
InitFire ==
    /\ sim = AddShip(AddShip(EmptySim, -100, 0, 0, 0), 100, 0, 0, 0)
    /\ scenario = Plain("none")
    /\ finished = FALSE /\ quit = FALSE /\ single_steps = 0 /\ paused = FALSE
    /\ keys_down = {} /\ keys_ignored = {} /\ physics_time = 0
    /\ calls = <<"add_ship", "add_ship">> /\ requested = "none"
    /\ ticks_ahead = 0 /\ observed = "none" /\ streak = 0 /\ advanced = 0
    /\ view = ViewNew
    /\ last = "new"
    /\ scan_by = 0 /\ scan_result = NotFound
    /\ hostIdle

\* test_hit line 13: sim.fire_weapon(ship0)
TestFire ==
    /\ Len(sim.ships) > 0
    /\ sim' \in FireWeapon(sim, FireEnv)
    /\ calls' = <<"fire_weapon">>
    /\ UNCHANGED <<scenario, uiVars, last, requested, ticks_ahead, observed, streak, advanced,
                   radarVars, hostVars, view>>

\* test_hit line 15: sim.step()
TestStep ==
    /\ sim' \in StepOutcomes(sim, FireEnv)
    /\ calls' = <<"step">>
    /\ UNCHANGED <<scenario, uiVars, last, requested, ticks_ahead, observed, streak, advanced,
                   radarVars, hostVars, view>>

NextFire == TestFire \/ TestStep
SpecFire == InitFire /\ [][NextFire]_vars

(***************************************************************************)
(* Claims about scan(), checked under SpecRadar.                           *)
(***************************************************************************)
Scanned == scan_by \in 1..Len(sim.ships)
Own == sim.ships[scan_by]
OwnDist2(j) == Dist2(Own.position, sim.ships[j].position)
Enemy(j) == sim.ships[j].team # Own.team
InRange(j) == OwnDist2(j) <= MAX_RADAR_DISTANCE * MAX_RADAR_DISTANCE
Qualifies(j) == Enemy(j) /\ InRange(j)
Returned(j) ==
    /\ sim.ships[j].position = scan_result.position
    /\ sim.ships[j].velocity = scan_result.velocity

\* C1: a result with found=true carries the position and velocity of a ship of
\* another team than the querying ship's (never the querying ship itself).
C1_NeverSameTeam ==
    (Scanned /\ scan_result.found) =>
        \E j \in 1..Len(sim.ships) : j # scan_by /\ Enemy(j) /\ Returned(j)

\* a same-team ship lies strictly closer than the enemy that was returned
C1_Witness ==
    /\ Scanned /\ scan_result.found
    /\ \E k \in 1..Len(sim.ships) :
          /\ k # scan_by /\ ~Enemy(k)
          /\ OwnDist2(k) < Dist2(Own.position, scan_result.position)

\* C2: a returned position is at most MAX_RADAR_DISTANCE from the querying ship,
\* and an enemy at exactly MAX_RADAR_DISTANCE is eligible (the scan finds a ship).
C2_WithinRange ==
    Scanned =>
        /\ scan_result.found =>
              Dist2(Own.position, scan_result.position)
                  <= MAX_RADAR_DISTANCE * MAX_RADAR_DISTANCE
        /\ (\E j \in 1..Len(sim.ships) :
               Enemy(j) /\ OwnDist2(j) = MAX_RADAR_DISTANCE * MAX_RADAR_DISTANCE)
              => scan_result.found

\* the returned enemy is at exactly the maximum range and another enemy is beyond it
C2_Witness ==
    /\ Scanned /\ scan_result.found
    /\ Dist2(Own.position, scan_result.position) = MAX_RADAR_DISTANCE * MAX_RADAR_DISTANCE
    /\ \E k \in 1..Len(sim.ships) : Enemy(k) /\ ~InRange(k)

\* C3: the returned position and velocity are those of one qualifying enemy that
\* is at least as close as every other qualifying enemy, whatever the order of
\* sim.ships.
C3_Closest ==
    (Scanned /\ scan_result.found) =>
        \E j \in 1..Len(sim.ships) :
            /\ Qualifies(j) /\ Returned(j)
            /\ \A k \in 1..Len(sim.ships) : Qualifies(k) => OwnDist2(j) <= OwnDist2(k)

\* two qualifying enemies at different distances, the closer one later in sim.ships
C3_Witness ==
    /\ Scanned /\ scan_result.found
    /\ \E j, k \in 1..Len(sim.ships) :
          j < k /\ Qualifies(j) /\ Qualifies(k) /\ OwnDist2(k) < OwnDist2(j)

\* C4: found=false exactly when no ship of another team is within range, and
\* then position and velocity are the zero vector.
C4_NotFoundIff ==
    Scanned =>
        /\ (~scan_result.found) <=> (\A j \in 1..Len(sim.ships) : ~Qualifies(j))
        /\ (~scan_result.found) =>
              (scan_result.position = Zero /\ scan_result.velocity = Zero)

\* nothing found although an enemy exists out of range and a friend within range
C4_Witness ==
    /\ Scanned /\ ~scan_result.found
    /\ \E j \in 1..Len(sim.ships) : Enemy(j) /\ ~InRange(j)
    /\ \E k \in 1..Len(sim.ships) : k # scan_by /\ ~Enemy(k) /\ InRange(k)

\* C5: a scan leaves the Simulation as it was, and a scan repeated by the same
\* ship right after it, with no step in between, returns the same result.
C5_NoSideEffects ==
    [][last' = "scan" =>
          /\ sim' = sim
          /\ scan(sim', scan_by').result = scan_result']_vars

\* a scan that found an enemy has just been made in a World of three ships
C5_Witness ==
    /\ last = "scan" /\ Scanned /\ scan_result.found
    /\ Len(sim.ships) = MaxShips

(***************************************************************************)
(* Claims about the hold-position scenarios, checked under SpecHold.       *)
(***************************************************************************)
Rendered == calls[1] = "render"
Called(op) == \E i \in 1..Len(calls) : calls[i] = op

\* C6: in tutorial02 and tutorial03, whenever status is Finished (and whenever
\* the driver has latched it) the latest HOLD_TICKS scenario ticks, at least,
\* each saw the ship on target, with no other tick in between.
C6_FinishedOnlyAfterHold ==
    (ScenarioStatus(scenario, sim) = Finished \/ finished) => streak >= HOLD_TICKS

\* the status is Finished and latched by the driver
C6_Witness ==
    /\ ScenarioStatus(scenario, sim) = Finished /\ finished
    /\ scenario.kind = "Tutorial03"

\* C7: a tick that sees the ship outside the target radius or at or above the
\* speed limit sets on_target_ticks to 0 in that very tick; a tick that sees it
\* on target adds exactly 1.
C7_ResetOrIncrement ==
    [][(calls'[1] = "render" /\ \E i \in 1..Len(calls') : calls'[i] = "tick") =>
          /\ observed' \in {"far", "fast"} => scenario'.on_target_ticks = 0
          /\ observed' = "on" =>
                scenario'.on_target_ticks = scenario.on_target_ticks + 1]_vars

\* the latest tick found the ship inside the radius at the speed limit and reset the streak
C7_Witness ==
    /\ Rendered /\ Called("tick")
    /\ observed = "fast" /\ scenario.on_target_ticks = 0 /\ streak = 0

(***************************************************************************)
(* Claims about the render loop, checked under SpecDriver.                 *)
(***************************************************************************)
RenderedNext == calls'[1] = "render"
CalledNext(op) == \E i \in 1..Len(calls') : calls'[i] = op

\* C8 as stated: once the finished latch is set, every later render call keeps
\* it set, calls neither scenario.tick nor Simulation.step, and calls the renderer.
C8_AsStated ==
    [][(finished /\ RenderedNext) =>
          /\ finished'
          /\ ~CalledNext("tick") /\ ~CalledNext("step")
          /\ CalledNext("renderer.render")]_vars

\* C8, amended: once the finished latch is set, every later render call keeps it
\* set and calls neither scenario.tick nor Simulation.step, pending single steps
\* included; it calls the renderer unless the driver has quit, and then it
\* returns at once and calls nothing.
C8_LatchMonotonic ==
    [][(finished /\ RenderedNext) =>
          /\ finished'
          /\ ~CalledNext("tick") /\ ~CalledNext("step")
          /\ CalledNext("renderer.render") <=> ~quit]_vars

\* a render call made with the latch already set and a single step pending,
\* which called the renderer only
C8_Witness ==
    /\ finished /\ paused /\ single_steps > 0
    /\ calls = <<"render", "renderer.render">>

\* C9: every render call made after the finished latch is set leaves the ships
\* and the bullets of the World as they were, whatever keys are held down.
C9_WorldFrozenOnceFinished ==
    [][(finished /\ RenderedNext) =>
          (sim'.ships = sim.ships /\ sim'.bullets = sim.bullets)]_vars

\* C10: in every render call each Simulation.step is directly preceded by one
\* scenario.tick, which no other tick precedes, and over all render calls there
\* have been as many scenario.tick calls as Simulation.step calls.
C10_TickBeforeEachStep ==
    /\ ticks_ahead = 0
    /\ Rendered =>
          /\ \A i \in 1..Len(calls) :
                calls[i] = "step" =>
                    /\ i > 1 /\ calls[i - 1] = "tick"
                    /\ i > 2 => calls[i - 2] # "tick"
          /\ \A i \in 1..Len(calls) :
                calls[i] = "tick" => (i < Len(calls) /\ calls[i + 1] = "step")

\* a paused render call that ran a single step: status, tick, step, renderer
C10_Witness ==
    /\ paused
    /\ calls = <<"render", "status", "tick", "step", "renderer.render">>

(***************************************************************************)
(* Claims about sessions, checked under SpecSession.                       *)
(***************************************************************************)
InitCalls == Cardinality({i \in 1..Len(calls) : calls[i] = "init"})
IndexOf(op) == CHOOSE i \in 1..Len(calls) : calls[i] = op

\* C11: in a session scenario.init is called exactly once, by UI::new, on the
\* Simulation that UI::new created just before, after load returned and before
\* any call of tick, status or step; no later operation of the driver calls it.
C11_InitOncePerSession ==
    ~Panicked =>
        /\ calls[1] = "new" =>
              /\ InitCalls = 1
              /\ Called("Simulation::new") /\ Called("load")
              /\ IndexOf("Simulation::new") < IndexOf("load")
              /\ IndexOf("load") < IndexOf("init")
              /\ ~Called("tick") /\ ~Called("status") /\ ~Called("step")
              /\ sim \in ScenarioInit(scenario, EmptySim, SessionEnv)
        /\ calls[1] # "new" => InitCalls = 0

\* a render call that ticked and stepped the asteroid scenario, in a UI that replaced another
C11_Witness ==
    /\ requested = "asteroid" /\ last = "select"
    /\ calls = <<"render", "status", "tick", "step", "renderer.render">>

\* C12: for every key of the registry, load(key) returns (its assertion does
\* not fail) a scenario whose name() is the key, at every later call as well.
C12_NameMatchesKey ==
    requested \in Registry => (~Panicked /\ ScenarioName(scenario) = requested)

\* the bullet-stress scenario, still named so after a tick
C12_Witness ==
    /\ requested = "bullet-stress" /\ scenario.kind = "BulletStressScenario"
    /\ Rendered /\ Called("tick")

\* C13: for a name that is no key of the registry, load panics: scenario.init
\* is not called and the Simulation has no ship, no bullet and no wall.
C13_UnknownNamePanics ==
    requested \notin Registry =>
        /\ Panicked
        /\ ~Called("init")
        /\ sim.ships = <<>> /\ sim.bullets = 0 /\ sim.walls = <<>>

\* an unknown name was selected while another scenario was running
C13_Witness == Panicked /\ requested = "nonesuch" /\ last = "select"

\* C20: UI::new leaves a Simulation that holds what the init of the new
\* scenario creates in an empty Simulation and nothing else, and a driver in
\* its initial state.
C20_FreshSimulation ==
    (calls[1] = "new" /\ ~Panicked) =>
        /\ sim \in ScenarioInit(scenario, EmptySim, SessionEnv)
        /\ ~finished /\ ~quit /\ ~paused /\ single_steps = 0
        /\ keys_down = {} /\ keys_ignored = {}

\* tutorial02, with its one ship, selected in place of another scenario
C20_Witness ==
    /\ calls[1] = "new" /\ last = "select"
    /\ requested = "tutorial02" /\ Len(sim.ships) = 1 /\ sim.walls = <<>>

\* C17: the walls of a scenario that calls add_walls are four static bodies
\* with one collider each, of restitution 1, member of the wall group only and
\* filtering the ship and bullet groups only; no two wall colliders interact,
\* and the walls stay where add_walls put them.
C17_FourStaticWalls ==
    (~Panicked /\ scenario.kind \in {"BasicScenario", "AsteroidScenario",
                                    "BulletStressScenario", "WelcomeScenario"}) =>
        /\ Len(sim.walls) = 4
        /\ {<<sim.walls[i].translation, sim.walls[i].rotation>> : i \in 1..Len(sim.walls)}
             = {<<<<0, 1>>, 0>>, <<<<0, -1>>, 2>>, <<<<1, 0>>, 1>>, <<<<-1, 0>>, 3>>}
        /\ \A i \in 1..Len(sim.walls) :
              /\ sim.walls[i].body = "static"
              /\ Len(sim.walls[i].colliders) = 1
              /\ sim.walls[i].colliders[1].restitution = 1
              /\ sim.walls[i].colliders[1].memberships = {WALL_COLLISION_GROUP}
              /\ sim.walls[i].colliders[1].filter
                    = {SHIP_COLLISION_GROUP, BULLET_COLLISION_GROUP}
        /\ \A i, j \in 1..Len(sim.walls) :
              ~Interacts(sim.walls[i].colliders[1], sim.walls[j].colliders[1])

\* the welcome scenario after a physics step
C17_Witness ==
    /\ scenario.kind = "WelcomeScenario" /\ Len(sim.walls) = 4
    /\ Rendered /\ Called("step")

(***************************************************************************)
(* Claims about status, checked under SpecHold.                            *)
(***************************************************************************)
\* C14 as stated: status is a function of the World alone, whatever ticks
\* came before: a step that leaves the World as it was leaves the status.
C14_AsStated ==
    [][(sim' = sim) =>
          ScenarioStatus(scenario', sim') = ScenarioStatus(scenario, sim)]_vars

\* C14: status is a function of the scenario's state and the World; in
\* tutorial02 and tutorial03 it follows on_target_ticks, which the ticks
\* before it set, and not the World: a step that leaves the scenario as it
\* was leaves the status, whatever becomes of the ships.
C14_StatusFollowsScenarioState ==
    [][(scenario' = scenario) =>
          ScenarioStatus(scenario', sim') = ScenarioStatus(scenario, sim)]_vars

\* the status is Finished in a World without any ship
C14_Witness ==
    /\ ScenarioStatus(scenario, sim) = Finished
    /\ Len(sim.ships) = 0

Fresh(k) == k \in keys_down /\ k \notin keys_ignored
\* paused and single_steps as the next render call has them once it has
\* handled the fresh presses of space and n
PausedInFrame == IF Fresh("n") THEN TRUE ELSE IF Fresh(" ") THEN ~paused ELSE paused
StepsInFrame == (IF Fresh(" ") THEN 0 ELSE single_steps) + (IF Fresh("n") THEN 1 ELSE 0)

\* C18: a render call in which the driver is paused and has no single step
\* pending calls neither tick nor step, leaves the ships, the bullets and the
\* scenario as they were whatever keys are held down, and leaves the driver paused.
C18_PausedFrameKeepsWorld ==
    [][(RenderedNext /\ ~quit /\ PausedInFrame /\ StepsInFrame = 0) =>
          /\ ~CalledNext("tick") /\ ~CalledNext("step")
          /\ sim'.ships = sim.ships /\ sim'.bullets = sim.bullets
          /\ scenario' = scenario
          /\ paused' /\ single_steps' = 0]_vars

\* a paused render call with the fire key held down and the scenario running
C18_Witness ==
    /\ calls = <<"render", "status", "renderer.render">>
    /\ paused /\ single_steps = 0 /\ ~finished
    /\ " " \notin keys_down /\ "n" \notin keys_down
    /\ "f" \in keys_down

\* C19: after every render call that did not return at once because of quit,
\* Simulation.collided is false.
C19_CollidedCleared ==
    (Rendered /\ Called("renderer.render")) => ~sim.collided

\* the render call that set the finished latch, with the keys that explode the
\* controlled ship held down and one ship left
C19_Witness ==
    /\ calls = <<"render", "status", "renderer.render">>
    /\ finished /\ ~paused
    /\ {"Shift", "k"} \subseteq keys_down
    /\ Len(sim.ships) = 1
    /\ ~sim.collided

(***************************************************************************)
(* Claims about the clock of the driver, checked under SpecDriver.         *)
(***************************************************************************)
\* C21: a render call calls Simulation.step at most once; it adds exactly one
\* tick length to physics_time when it steps and nothing when it does not,
\* whatever the wall clock says; and after a render call of a running driver
\* (not finished, not paused) physics_time is at most two tick lengths behind
\* the wall clock.
C21_FixedTicks ==
    Rendered =>
        /\ Count(calls, "step") <= 1
        /\ advanced = DT * Count(calls, "step")
        /\ (Called("renderer.render") /\ ~finished /\ ~paused) =>
              physics_time >= 0 - 2 * DT

\* a running frame that stepped from a physics_time two tick lengths behind the clock
C21_Witness ==
    /\ calls = <<"render", "status", "tick", "step", "renderer.render">>
    /\ ~paused /\ ~finished
    /\ advanced = DT /\ physics_time = 0 - DT

(***************************************************************************)
(* Claims about what init creates, checked under SpecSession.              *)
(***************************************************************************)
\* C22: two runs that load the same scenario and call init have the same
\* initial World and the same scenario target: a UI::new that directly follows
\* a UI::new of the same name leaves the Simulation and the scenario that the
\* first one left.
C22_SameScenarioSameWorld ==
    [][(calls[1] = "new" /\ ~Panicked /\ calls'[1] = "new" /\ requested' = requested) =>
          (sim' = sim /\ scenario' = scenario)]_vars

(***************************************************************************)
(* Claims about the asteroid scenarios, checked under SpecDriver.          *)
(***************************************************************************)
AsteroidAlive == \E i \in 1..Len(sim.ships) : sim.ships[i].class = "asteroid"

\* C23: in tutorial01 and tutorial04 the status is Finished if and only if the
\* asteroid has been destroyed; the loss of the player's ship does not finish
\* the scenario.
C23_FinishedIffAsteroidDestroyed ==
    scenario.kind \in {"Tutorial01", "Tutorial04"} =>
        ((ScenarioStatus(scenario, sim) = Finished) <=> ~AsteroidAlive)

\* the point the scenario measures progress against: the centre of the
\* hold-position check of tick, or the place where the asteroid was created
Goal ==
    CASE scenario.kind = "Tutorial02" -> Tutorial02Target
      [] scenario.kind = "Tutorial03" -> scenario.target
      [] scenario.kind = "Tutorial04" -> sim.ships[2].position

\* C24: at the end of init in tutorial02, tutorial03 and tutorial04 the target
\* written to the controller of the player's fighter is the goal of the
\* scenario, and no other ship has a target.
C24_TargetIsGoal ==
    (calls[1] = "new" /\ scenario.kind \in {"Tutorial02", "Tutorial03", "Tutorial04"}) =>
        /\ sim.ships[1].class = "fighter"
        /\ sim.ships[1].target = <<Goal>>
        /\ \A i \in 2..Len(sim.ships) : sim.ships[i].target = <<>>

\* tutorial04 with its asteroid at the second of the random targets
C24_Witness ==
    /\ calls[1] = "new" /\ scenario.kind = "Tutorial04"
    /\ scenario.target = <<-120, 300>>
    /\ sim.ships[1].target = <<scenario.target>>
    /\ Len(sim.ships) = 2

(***************************************************************************)
(* Claims about the overlay ring, checked under SpecHold.                  *)
(***************************************************************************)
Green(lines) == Cardinality({i \in 1..Len(lines) : lines[i] = "green"})
RingAfter(k) == ScenarioLines([scenario EXCEPT !.on_target_ticks = k])
Ring == ScenarioLines(scenario)

\* C25 as stated: the ring has 20 segments, none green at a streak of 0, never
\* fewer green ones than at the on_target_ticks one below (every count up to
\* 121 is reached), and all green if and only if status is Finished.
C25_AsStated ==
    /\ Len(Ring) = 20
    /\ scenario.on_target_ticks = 0 => Green(Ring) = 0
    /\ scenario.on_target_ticks > 0 =>
          Green(RingAfter(scenario.on_target_ticks - 1)) <= Green(Ring)
    /\ (Green(Ring) = 20) <=> (ScenarioStatus(scenario, sim) = Finished)

\* C25, amended: the ring has 20 segments, none green at a streak of 0, never
\* fewer green ones than at the on_target_ticks one below; it is all green whenever
\* status is Finished, and exactly when on_target_ticks exceeds 114.
C25_RingShowsProgress ==
    /\ Len(Ring) = 20
    /\ scenario.on_target_ticks = 0 => Green(Ring) = 0
    /\ scenario.on_target_ticks > 0 =>
          Green(RingAfter(scenario.on_target_ticks - 1)) <= Green(Ring)
    /\ (ScenarioStatus(scenario, sim) = Finished) => Green(Ring) = 20
    /\ (Green(Ring) = 20) <=> (scenario.on_target_ticks > 114)

\* the ring is all green and the status still Running
C25_Witness ==
    /\ Green(Ring) = 20
    /\ scenario.on_target_ticks = 115
    /\ ScenarioStatus(scenario, sim) = Running


\* ---------------------------------------------------------------------------
\* Leaderboard submission (frontend/app/src/services.rs)
\* ---------------------------------------------------------------------------

\* submissions made in one session
MaxPosts == 2

\* what Request::send can resolve to
SendResults == {"Ok", "Err"}

\* post_leaderboard: spawn_local queues the future and the function returns
post_leaderboard(v) ==
    [v EXCEPT !.posts = @ + 1, !.queued = @ + 1, !.caller = "returned"]

\* the spawned future up to its await: one POST request is sent
SendRequest(v) ==
    [v EXCEPT !.queued = @ - 1, !.in_flight = @ + 1, !.requests = @ + 1]

\* a future that queues itself again when the request fails
OnResultRetrying(v, result) ==
    IF result = "Err"
    THEN [v EXCEPT !.in_flight = @ - 1, !.warnings = @ + 1, !.queued = @ + 1]
    ELSE [v EXCEPT !.in_flight = @ - 1]

\* the spawned future after its await: an Err is logged as a warning, and the future ends
OnResult(v, result) ==
    IF result = "Err"
    THEN [v EXCEPT !.in_flight = @ - 1, !.warnings = @ + 1]
    ELSE [v EXCEPT !.in_flight = @ - 1]

PostLeaderboard ==
    /\ svc.posts < MaxPosts
    /\ svc' = post_leaderboard(svc)
    /\ UNCHANGED <<coreVars, app, tool, enemy>>

LeaderboardSend ==
    /\ svc.queued > 0
    /\ svc' = SendRequest(svc)
    /\ UNCHANGED <<coreVars, app, tool, enemy>>

LeaderboardResult ==
    /\ svc.in_flight > 0
    /\ \E result \in SendResults : svc' = OnResult(svc, result)
    /\ UNCHANGED <<coreVars, app, tool, enemy>>

\* the front end the submissions are made from
LeaderboardEnv ==
    [names |-> {"tutorial01"}, P |-> {}, V |-> {<<1, 0>>}, B |-> 0,
     frames |-> {3}, keys |-> {"k", "Shift"}]

InitLeaderboard == InitUI(LeaderboardEnv)
NewLeaderboard == New(LeaderboardEnv)
KeyDownLeaderboard == KeyDown(LeaderboardEnv)
KeyUpLeaderboard == KeyUp(LeaderboardEnv)
RenderLeaderboard == Render(LeaderboardEnv)

NextLeaderboard ==
    \/ PostLeaderboard
    \/ LeaderboardSend
    \/ LeaderboardResult
    \/ NewLeaderboard
    \/ KeyDownLeaderboard
    \/ KeyUpLeaderboard
    \/ RenderLeaderboard

SpecLeaderboard == InitLeaderboard /\ [][NextLeaderboard]_vars

\* C26: post_leaderboard returns without waiting for the request (the caller has
\* returned while the future is still queued or in flight, and a further submission is
\* accepted without the earlier one being complete); each submission sends at most one
\* request, so a failed request is not sent again; a failed request only adds a warning;
\* no step of a submission changes the simulation, the scenario or the UI.
C26_HandOffIgnoresFailure ==
    [][/\ svc'.requests + svc'.queued = svc'.posts
       /\ svc'.warnings <= svc'.requests
       /\ svc'.caller \in {"idle", "returned"}
       /\ (svc'.posts > 0 => svc'.caller = "returned")
       /\ (svc' # svc =>
              /\ UNCHANGED <<sim, scenario, uiVars>>
              /\ (svc'.posts > svc.posts =>
                     /\ svc'.requests = svc.requests
                     /\ svc'.in_flight = svc.in_flight)
              /\ (svc'.warnings > svc.warnings =>
                     /\ svc'.warnings = svc.warnings + 1
                     /\ svc'.in_flight = svc.in_flight - 1
                     /\ svc'.requests = svc.requests
                     /\ svc'.queued = svc.queued
                     /\ svc'.posts = svc.posts))]_vars

\* a request failed and was logged while the caller had long returned and the game went on
C26_Witness ==
    /\ svc.warnings = 1 /\ svc.requests = 1 /\ svc.posts = 2 /\ svc.queued = 1
    /\ svc.caller = "returned" /\ Called("step")


\* ---------------------------------------------------------------------------
\* The application shell (yew/src/lib.rs): Model::create and Model::update
\* ---------------------------------------------------------------------------

\* the scenarios offered for selection, the texts an editor can hold, the seeds drawn
AppNames == {"welcome", "tutorial01"}
Codes == {"", "initial", "solution", "a"}
Seeds == {0, 1}

\* Scenario::initial_code: the welcome scenario and tutorial01 each have a text of their own
initial_code(name) == "initial"

\* Scenario::solution: tutorial01 has one, the welcome scenario keeps the default
solution(name) == IF name = "welcome" THEN "" ELSE "solution"

\* sim_agent::Request::StartScenario
StartScenario(scenario_name, seed, code) ==
    [scenario_name |-> scenario_name, seed |-> seed, code |-> code]

\* Game::start
GameStart(scenario_name, code) ==
    [scenario_name |-> scenario_name, code |-> code, started |-> TRUE]

\* Model::create: the fields of the new Model; SelectScenario("welcome") is the first
\* message it will handle, and one animation-frame request is pending (render_task holds it;
\* of the identity of a request the model keeps the parity)
Create(storage) ==
    [scenario_name |-> "", editor |-> "", storage |-> storage, game |-> NoGame,
     sent |-> <<>>, handler |-> "create",
     pending |-> 1, render_task |-> 0, renders |-> 0]

\* Msg::SelectScenario
SelectScenario(a, scenario_name, seed) ==
    [a EXCEPT !.scenario_name = scenario_name,
              !.editor = a.storage[scenario_name],
              !.game = GameStart(scenario_name, ""),
              !.sent = <<StartScenario(scenario_name, seed, "")>>,
              !.renders = 0,
              !.handler = "select"]

\* an "execute" that restarts the scenario as a selection does, without the code
ExecuteWithoutCode(a, seed) ==
    [a EXCEPT !.storage = [a.storage EXCEPT ![a.scenario_name] = a.editor],
              !.game = GameStart(a.scenario_name, ""),
              !.sent = <<StartScenario(a.scenario_name, seed, "")>>,
              !.renders = 0,
              !.handler = "execute"]

\* Msg::EditorAction("execute")
Execute(a, seed) ==
    LET code == a.editor
    IN  [a EXCEPT !.storage = [a.storage EXCEPT ![a.scenario_name] = code],
                  !.game = GameStart(a.scenario_name, code),
                  !.sent = <<StartScenario(a.scenario_name, seed, code)>>,
                  !.renders = 0,
                  !.handler = "execute"]

\* Msg::EditorAction("load-initial-code") and ("load-solution-code")
LoadCode(a, action) ==
    [a EXCEPT !.editor = IF action = "load-initial-code" THEN initial_code(a.scenario_name)
                         ELSE solution(a.scenario_name),
              !.sent = <<>>,
              !.renders = 0,
              !.handler = action]

\* Msg::EditorAction with any other action: logged only
OtherEditorAction(a) == [a EXCEPT !.sent = <<>>, !.renders = 0, !.handler = "other"]

\* the user types in the editor widget
Typed(a, text) == [a EXCEPT !.editor = text, !.sent = <<>>, !.renders = 0, !.handler = "typed"]

\* the messages handled by the remaining arms of Model::update
OtherMessages ==
    {"KeyEvent", "WheelEvent", "ReceivedSimAgentResponse", "RequestSnapshot",
     "ShowDocumentation", "DismissOverlay"}

\* Msg::KeyEvent, WheelEvent, ReceivedSimAgentResponse, RequestSnapshot, ShowDocumentation
\* and DismissOverlay: of these only RequestSnapshot sends a request to the simulation agent
OtherMsg(a, msg) ==
    [a EXCEPT !.sent = IF msg = "RequestSnapshot" THEN <<[snapshot |-> TRUE, nonce |-> 0]>>
                       ELSE <<>>,
              !.renders = 0,
              !.handler = msg]

\* the browser runs the callback of the pending animation-frame request, which sends Msg::Render
FrameFires(a) == [a EXCEPT !.pending = @ - 1]

\* a Render arm that draws and requests no further frame
RenderMsgWithoutRequest(a) ==
    [a EXCEPT !.renders = 1, !.sent = <<>>, !.handler = "render"]

\* Msg::Render: game.render, then a new animation-frame request replaces render_task
RenderMsg(a) ==
    [a EXCEPT !.renders = 1,
              !.pending = @ + 1,
              !.render_task = 1 - @,
              !.sent = <<>>,
              !.handler = "render"]

InitApp ==
    /\ coreIdle
    /\ svc = SvcIdle /\ tool = ToolIdle /\ enemy = EnemyIdle
    /\ \E storage \in [AppNames -> {"initial", "a"}] : app = Create(storage)

AppSelectScenario ==
    /\ \E name \in AppNames, seed \in Seeds :
          /\ app.handler = "create" => name = "welcome"
          /\ app' = SelectScenario(app, name, seed)
    /\ UNCHANGED <<coreVars, svc, tool, enemy>>

AppExecute ==
    /\ app.handler # "create"
    /\ \E seed \in Seeds : app' = Execute(app, seed)
    /\ UNCHANGED <<coreVars, svc, tool, enemy>>

AppLoadCode ==
    /\ app.handler # "create"
    /\ \E action \in {"load-initial-code", "load-solution-code"} : app' = LoadCode(app, action)
    /\ UNCHANGED <<coreVars, svc, tool, enemy>>

AppOtherEditorAction ==
    /\ app.handler # "create"
    /\ app' = OtherEditorAction(app)
    /\ UNCHANGED <<coreVars, svc, tool, enemy>>

AppTyped ==
    /\ app.handler # "create"
    /\ \E text \in Codes : app' = Typed(app, text)
    /\ UNCHANGED <<coreVars, svc, tool, enemy>>

\* an animation frame: the callback sends Msg::Render and the Model handles it at once.
\* SelectScenario("welcome"), sent by create, is handled before the first frame.
AppRender ==
    /\ app.handler # "create"
    /\ app.pending > 0
    /\ app' = RenderMsg(FrameFires(app))
    /\ UNCHANGED <<coreVars, svc, tool, enemy>>

AppOtherMsg ==
    /\ app.handler # "create"
    /\ \E msg \in OtherMessages : app' = OtherMsg(app, msg)
    /\ UNCHANGED <<coreVars, svc, tool, enemy>>

NextApp ==
    \/ AppRender
    \/ AppOtherMsg
    \/ AppSelectScenario
    \/ AppExecute
    \/ AppLoadCode
    \/ AppOtherEditorAction
    \/ AppTyped

SpecApp == InitApp /\ [][NextApp]_vars

\* the message sent by create is delivered, and the browser keeps running animation frames
SpecAppLive ==
    /\ SpecApp
    /\ WF_vars(app.handler = "create" /\ AppSelectScenario)
    /\ WF_vars(AppRender)

\* C27: the "execute" handler saves the editor text under the current scenario name (and
\* under no other name), restarts the game with that scenario and that text, sends exactly
\* one StartScenario request with the same scenario name and the same text, and leaves the
\* selected scenario name (and the editor text) as they were.
C27_ExecuteRunsEditorText ==
    [][app'.handler = "execute" =>
          /\ app'.scenario_name = app.scenario_name
          /\ app'.editor = app.editor
          /\ app'.storage = [app.storage EXCEPT ![app.scenario_name] = app.editor]
          /\ app'.game = GameStart(app.scenario_name, app.editor)
          /\ Len(app'.sent) = 1
          /\ app'.sent[1].scenario_name = app.scenario_name
          /\ app'.sent[1].code = app.editor]_vars

\* Ctrl-Enter on tutorial01 after the stored text was replaced by a new one
C27_Witness ==
    /\ app.handler = "execute" /\ app.scenario_name = "tutorial01"
    /\ app.editor = "a" /\ app.storage = [n \in AppNames |-> IF n = "tutorial01" THEN "a" ELSE "initial"]
    /\ app.game = GameStart("tutorial01", "a")
    /\ app.sent = <<StartScenario("tutorial01", 1, "a")>>


\* ---------------------------------------------------------------------------
\* The release tool (tools/src/bin/release.rs)
\* ---------------------------------------------------------------------------

ALL_COMPONENTS == <<"app", "telemetry", "leaderboard", "compiler", "doc">>
Components == {ALL_COMPONENTS[i] : i \in 1..Len(ALL_COMPONENTS)}

\* the values of --components the runs are made with: the default, the same five in
\* another order, and two selections
ComponentLists ==
    {ALL_COMPONENTS,
     <<"doc", "app", "telemetry", "leaderboard", "compiler">>,
     <<"app">>,
     <<"compiler", "doc">>}

\* struct Arguments
Arguments ==
    [components : ComponentLists, skip_version_bump : BOOLEAN, dry_run : BOOLEAN,
     skip_git_checks : BOOLEAN, skip_github : BOOLEAN, skip_discord : BOOLEAN]

\* what the commands find: the working tree, the current branch, the changelog, and the
\* command that exits with a failure, if one does
Environments ==
    [dirty : BOOLEAN, branch : {"master", "feature"}, changelog_empty : BOOLEAN,
     failing : {"none", "cargo verify-project", "docker build compiler", "git push"}]

\* Vec::contains
Contains(components, c) == \E i \in 1..Len(components) : components[i] = c

\* sync_cmd_ok, one command after the other with `?`: the commands run up to and including
\* the first that fails
RunAll(cmds, failing) ==
    LET bad == {i \in 1..Len(cmds) : cmds[i] = failing}
        n == IF bad = {} THEN Len(cmds) ELSE CHOOSE i \in bad : \A j \in bad : i <= j
    IN  [ran |-> {cmds[i] : i \in 1..n}, ok |-> bad = {}]

Fail(t, ran, error) ==
    [t EXCEPT !.commands = @ \cup ran, !.pc = "failed", !.error = error]

Goto(t, ran, pc) == [t EXCEPT !.commands = @ \cup ran, !.pc = pc]

\* main, lines 65-75: the arguments are parsed
Start(args, env) ==
    [args |-> args, env |-> env, pc |-> "git checks", error |-> "", commands |-> {},
     tasks |-> [c \in Components |-> "none"]]

\* main, lines 75-79
GitChecks(t) ==
    IF ~t.args.skip_git_checks
    THEN IF t.env.dirty
         THEN Fail(t, {"git diff"}, "Uncommitted changes, halting release")
         ELSE Goto(t, {"git diff"}, "bump checks")
    ELSE Goto(t, {}, "bump checks")

\* main, line 81
bump_version(t) == ~t.args.skip_version_bump

\* main, lines 82-102
BumpChecks(t) ==
    IF ~bump_version(t) THEN Goto(t, {}, "spawn")
    ELSE IF t.args.components # ALL_COMPONENTS
    THEN Fail(t, {}, "Attempted to bump version without pushing all components")
    ELSE IF t.env.branch # "master" /\ ~t.args.skip_git_checks
    THEN Fail(t, {"git rev-parse"}, "Not on master branch, halting release")
    ELSE IF t.env.changelog_empty
    THEN Fail(t, {"git rev-parse", "sed"}, "Changelog empty, halting release")
    ELSE Goto(t, {"git rev-parse", "sed"}, "bump")

\* main, lines 106-180
BumpCommands ==
    <<"cargo workspaces version", "cargo update", "cargo verify-project",
      "git commit", "git tag">>

Bump(t) ==
    LET r == RunAll(BumpCommands, t.env.failing)
    IN  IF r.ok THEN Goto(t, r.ran, "spawn") ELSE Fail(t, r.ran, "Command failed")

\* main, lines 183-472: a task is spawned for each component that is selected
Spawn(t) ==
    [t EXCEPT !.tasks = [c \in Components |->
                            IF Contains(t.args.components, c) THEN "spawned" ELSE "none"],
              !.pc = "join"]

\* the commands of the task of component c
TaskCommands(c, dry_run, bump) ==
    CASE c = "app" ->
           <<"cargo build", "trunk build">>
           \o (IF ~dry_run THEN <<"firebase deploy">> ELSE <<>>)
      [] c = "compiler" ->
           <<"docker build compiler">>
           \o (IF ~dry_run
               THEN <<"docker tag compiler", "docker push compiler",
                      "gcloud run deploy compiler", "gcloud compute ssh prune",
                      "gcloud compute instances update-container">>
               ELSE <<>>)
      [] c = "telemetry" ->
           <<"docker build telemetry">>
           \o (IF ~dry_run
               THEN <<"docker tag telemetry", "docker push telemetry",
                      "gcloud run deploy telemetry">>
               ELSE <<>>)
      [] c = "leaderboard" ->
           <<"docker build leaderboard">>
           \o (IF ~dry_run
               THEN <<"docker tag leaderboard", "docker push leaderboard",
                      "gcloud run deploy leaderboard">>
               ELSE <<>>)
      [] c = "doc" ->
           <<"cargo doc">>
           \o (IF ~dry_run /\ bump THEN <<"cargo publish">> ELSE <<>>)

\* one spawned task runs to its end
Task(t, c) ==
    LET r == RunAll(TaskCommands(c, t.args.dry_run, bump_version(t)), t.env.failing)
    IN  [t EXCEPT !.commands = @ \cup r.ran,
                  !.tasks[c] = IF r.ok THEN "ok" ELSE "failed"]

\* main, lines 473-483
Join(t) ==
    IF \E c \in Components : t.tasks[c] = "failed"
    THEN Fail(t, {}, "Release task failed")
    ELSE Goto(t, {}, "push")

\* main, lines 485-496
Push(t) ==
    LET cmds == (IF ~t.args.skip_github THEN <<"git push">> ELSE <<>>)
                \o (IF ~t.args.skip_discord THEN <<"send-changelog-discord-message.sh">>
                    ELSE <<>>)
        r == RunAll(cmds, t.env.failing)
    IN  IF r.ok THEN Goto(t, r.ran, "finished") ELSE Fail(t, r.ran, "Command failed")

InitRelease ==
    /\ coreIdle
    /\ app = AppIdle /\ svc = SvcIdle /\ enemy = EnemyIdle
    /\ \E args \in Arguments, env \in Environments : tool = Start(args, env)

ReleaseGitChecks ==
    /\ tool.pc = "git checks"
    /\ tool' = GitChecks(tool)
    /\ UNCHANGED <<coreVars, app, svc, enemy>>

ReleaseBumpChecks ==
    /\ tool.pc = "bump checks"
    /\ tool' = BumpChecks(tool)
    /\ UNCHANGED <<coreVars, app, svc, enemy>>

ReleaseBump ==
    /\ tool.pc = "bump"
    /\ tool' = Bump(tool)
    /\ UNCHANGED <<coreVars, app, svc, enemy>>

ReleaseSpawn ==
    /\ tool.pc = "spawn"
    /\ tool' = Spawn(tool)
    /\ UNCHANGED <<coreVars, app, svc, enemy>>

ReleaseTask ==
    /\ tool.pc = "join"
    /\ \E c \in Components :
          /\ tool.tasks[c] = "spawned"
          /\ tool' = Task(tool, c)
    /\ UNCHANGED <<coreVars, app, svc, enemy>>

ReleaseJoin ==
    /\ tool.pc = "join"
    /\ \A c \in Components : tool.tasks[c] # "spawned"
    /\ tool' = Join(tool)
    /\ UNCHANGED <<coreVars, app, svc, enemy>>

ReleasePush ==
    /\ tool.pc = "push"
    /\ tool' = Push(tool)
    /\ UNCHANGED <<coreVars, app, svc, enemy>>

NextRelease ==
    \/ ReleaseGitChecks
    \/ ReleaseBumpChecks
    \/ ReleaseBump
    \/ ReleaseSpawn
    \/ ReleaseTask
    \/ ReleaseJoin
    \/ ReleasePush

SpecRelease == InitRelease /\ [][NextRelease]_vars

\* the commands that build, and the commands that push or deploy
BuildCommands ==
    {"cargo build", "trunk build", "docker build compiler", "docker build telemetry",
     "docker build leaderboard", "cargo doc"}
PushCommands ==
    {"firebase deploy", "docker push compiler", "docker push telemetry",
     "docker push leaderboard", "gcloud run deploy compiler", "gcloud run deploy telemetry",
     "gcloud run deploy leaderboard", "gcloud compute instances update-container",
     "cargo publish", "git push"}
VersionCommands ==
    {"cargo workspaces version", "cargo update", "git commit", "git tag"}

\* C28: in a run with dry_run set, no docker push, gcloud deploy or update-container,
\* firebase deploy, cargo publish or git push command is executed.
C28_DryRunPushesNothing ==
    tool.args.dry_run => tool.commands \cap PushCommands = {}

\* all five components are selected
AllSelected == \A c \in Components : Contains(tool.args.components, c)

\* the check of the components has been made
ComponentsChecked ==
    /\ bump_version(tool)
    /\ tool.pc \notin {"git checks", "bump checks"}
    /\ tool.error # "Uncommitted changes, halting release"

\* C29: when the version is to be bumped, the run gets past the check of the components
\* if and only if all five components are selected, and otherwise it fails with
\* 'Attempted to bump version without pushing all components' before any command that
\* changes versions, commits or tags.
C29_BumpOnlyWithAllComponents ==
    ComponentsChecked =>
        /\ AllSelected <=>
              tool.error # "Attempted to bump version without pushing all components"
        /\ tool.error = "Attempted to bump version without pushing all components" =>
              tool.commands \cap VersionCommands = {}

\* C30: in a run without skip_git_checks, with uncommitted changes or on a branch other
\* than master, no build, deploy or push command is executed.
C30_GitChecksGuardTheRelease ==
    (~tool.args.skip_git_checks /\ (tool.env.dirty \/ tool.env.branch # "master")) =>
        tool.commands \cap (BuildCommands \cup PushCommands) = {}


\* ---------------------------------------------------------------------------
\* The tutorial05 enemy (shared/ai/tutorial/tutorial05.enemy.rs)
\* ---------------------------------------------------------------------------

\* ticks of one run
MaxEnemyTicks == 4

\* oorandom::Rand64: the states of the generator, folded to a cycle of eight
RngStates == 8

\* the directions rand_float() * TAU can give, folded to quarter turns
Turns == 4

\* the values of seed(), and the own positions a tick can find the ship at
EnemySeeds == {0, 1}
EnemyPositions ==
    {<<0, 0>>, <<900, 0>>, <<800, 0>>, <<0, 900>>, <<-900, 0>>, <<0, -900>>, <<1000, 150>>}

\* what differs between two runs with the same seed: the clock and the entropy of the host
Ambients == {0, 1}

\* Rand64::new(seed)
Rand64New(seed) == seed % RngStates

\* Rand64::rand_float: the next state of the generator; the value returned is read off it
Rand64Next(rng) == (5 * rng + 3) % RngStates
rand_float(rng) == Rand64Next(rng) % Turns

\* vec2(1000.0, 0.0).rotate(f * TAU)
Rotate(f) ==
    CASE f = 0 -> <<1000, 0>>
      [] f = 1 -> <<0, 1000>>
      [] f = 2 -> <<-1000, 0>>
      [] f = 3 -> <<0, -1000>>

\* (self.target - position()).length() < 200.0
Near(target, position) ==
    (target[1] - position[1]) * (target[1] - position[1])
    + (target[2] - position[2]) * (target[2] - position[2]) < 200 * 200

\* Ship::new
EnemyNew(position, seed, ambient) == [target |-> position, rng |-> Rand64New(seed)]

\* a tick that builds its generator anew from seed() before it draws
EnemyTickReseeding(e, position, seed, ambient) ==
    IF Near(e.target, position)
    THEN [target |-> Rotate(rand_float(Rand64New(seed))), rng |-> Rand64Next(Rand64New(seed))]
    ELSE e

\* Ship::tick, as far as target and rng go
EnemyTick(e, position, seed, ambient) ==
    IF Near(e.target, position)
    THEN [target |-> Rotate(rand_float(e.rng)), rng |-> Rand64Next(e.rng)]
    ELSE e

\* the generator after n draws from Rand64::new(seed)
RECURSIVE Drawn(_, _)
Drawn(seed, n) == IF n = 0 THEN Rand64New(seed) ELSE Rand64Next(Drawn(seed, n - 1))

InitEnemy ==
    /\ coreIdle
    /\ app = AppIdle /\ svc = SvcIdle /\ tool = ToolIdle
    /\ \E seed \in EnemySeeds, position \in EnemyPositions, a \in Ambients, b \in Ambients :
          enemy = [seed |-> seed, position |-> position, ticks |-> 0, draws |-> 0,
                   drew |-> FALSE,
                   a |-> EnemyNew(position, seed, a), b |-> EnemyNew(position, seed, b)]

\* one tick of both runs, at the same own position
EnemyTicks ==
    /\ enemy.ticks < MaxEnemyTicks
    /\ \E position \in EnemyPositions, a \in Ambients, b \in Ambients :
          enemy' = [enemy EXCEPT
                       !.position = position,
                       !.ticks = @ + 1,
                       !.drew = Near(enemy.a.target, position),
                       !.draws = IF Near(enemy.a.target, position) THEN @ + 1 ELSE @,
                       !.a = EnemyTick(enemy.a, position, enemy.seed, a),
                       !.b = EnemyTick(enemy.b, position, enemy.seed, b)]
    /\ UNCHANGED <<coreVars, app, svc, tool>>

\* the run is over and another one starts
EnemyRestart ==
    /\ enemy.ticks = MaxEnemyTicks
    /\ \E seed \in EnemySeeds, position \in EnemyPositions, a \in Ambients, b \in Ambients :
          enemy' = [seed |-> seed, position |-> position, ticks |-> 0, draws |-> 0,
                    drew |-> FALSE,
                    a |-> EnemyNew(position, seed, a), b |-> EnemyNew(position, seed, b)]
    /\ UNCHANGED <<coreVars, app, svc, tool>>

NextEnemy ==
    \/ EnemyTicks
    \/ EnemyRestart

SpecEnemy == InitEnemy /\ [][NextEnemy]_vars

\* C31: the generator is the one seeded from seed() at construction, advanced once for
\* each target drawn and never seeded again; two runs with the same seed and the same own
\* positions have the same target (and generator) after every tick; a tick changes the
\* target only if the ship is within 200 of it, and otherwise leaves target and generator
\* as they were.
C31_SeededOnce ==
    [][/\ enemy'.a.rng = Drawn(enemy'.seed, enemy'.draws)
       /\ enemy'.a = enemy'.b
       /\ (enemy'.ticks = enemy.ticks + 1 =>
              /\ (~Near(enemy.a.target, enemy'.position) => enemy'.a = enemy.a)
              /\ (enemy'.a.target # enemy.a.target => Near(enemy.a.target, enemy'.position)))]_vars

\* the third target of a run, drawn after a tick that was too far away to draw
C31_Witness ==
    /\ enemy.ticks = 4 /\ enemy.draws = 3 /\ enemy.drew
    /\ enemy.a.target # enemy.position /\ enemy.a.rng = Drawn(enemy.seed, 3)


(***************************************************************************)
(* Ties in scan(), checked under SpecRadar.                                *)
(***************************************************************************)
\* the qualifying enemies at the least distance
Closest ==
    {j \in 1..Len(sim.ships) :
        /\ Qualifies(j)
        /\ \A k \in 1..Len(sim.ships) : Qualifies(k) => OwnDist2(j) <= OwnDist2(k)}

\* the one of them that comes first in sim.ships
FirstClosest == CHOOSE j \in Closest : \A k \in Closest : j <= k

\* C32: among several qualifying enemies at the same least distance, scan returns the
\* position and velocity of the one that comes first in sim.ships.
C32_FirstOfTies ==
    (Scanned /\ scan_result.found) => (Closest # {} /\ Returned(FirstClosest))

\* two enemies at the same least distance in different places: the first was returned
C32_Witness ==
    /\ Scanned /\ scan_result.found
    /\ \E j, k \in Closest : j < k /\ Returned(j) /\ ~Returned(k)


(***************************************************************************)
(* The hold-position counter under the driver, checked under SpecHold.     *)
(***************************************************************************)
\* C33: in a tutorial02 or tutorial03 session on_target_ticks stays between 0 and
\* HOLD_TICKS + 1 = 121: the driver calls scenario.tick no more once it has seen the
\* status Finished.
C33_CounterBounded ==
    scenario.kind \in {"Tutorial02", "Tutorial03"} =>
        /\ 0 <= scenario.on_target_ticks
        /\ scenario.on_target_ticks <= HOLD_TICKS + 1
        /\ finished => ~Called("tick")

\* the counter at 121 and the status latched: a further render call made no tick
C33_Witness ==
    /\ scenario.kind = "Tutorial02" /\ scenario.on_target_ticks = HOLD_TICKS + 1
    /\ finished /\ calls = <<"render", "renderer.render">>


\* C34: in tutorial02 and tutorial03 a tick that finds no ship in the World leaves
\* on_target_ticks as it was; and once the World has no ship while the status is Running,
\* the status is Running in the next state too (hence in every later one), and the driver
\* never sets finished.
C34_NoShipNoProgress ==
    [][scenario.kind \in {"Tutorial02", "Tutorial03"} =>
          /\ (calls'[1] = "render" /\ (\E i \in 1..Len(calls') : calls'[i] = "tick")
                /\ observed' = "none") =>
                scenario'.on_target_ticks = scenario.on_target_ticks
          /\ (Len(sim.ships) = 0 /\ ScenarioStatus(scenario, sim) = Running) =>
                /\ Len(sim'.ships) = 0
                /\ ScenarioStatus(scenario', sim') = Running
                /\ ~finished']_vars

\* the ship was destroyed after some ticks on target, and the latest tick found no ship
C34_Witness ==
    /\ scenario.kind = "Tutorial03" /\ Len(sim.ships) = 0
    /\ Rendered /\ Called("tick") /\ observed = "none"
    /\ scenario.on_target_ticks = 2 /\ ScenarioStatus(scenario, sim) = Running


KeysEnv ==
    [names |-> {"tutorial01"},
     P |-> {},
     V |-> {<<1, 0>>},
     B |-> 0,
     frames |-> {3},
     keys |-> {" ", "n", "u", "q", "w", "z"}]

InitKeys == InitUI(KeysEnv)
KeyDownKeys == KeyDown(KeysEnv)
KeyUpKeys == KeyUp(KeysEnv)
RenderKeys == Render(KeysEnv)
NextKeys == KeyDownKeys \/ KeyUpKeys \/ RenderKeys
SpecKeys == InitKeys /\ [][NextKeys]_vars

OneShotKeys == {" ", "n", "u"}

C37_QuitIsTerminal ==
    [][/\ quit => quit'
       /\ (RenderedNext /\ ~quit /\ "q" \in keys_down) => quit'
       /\ (RenderedNext /\ quit) =>
             /\ calls' = <<"render">>
             /\ UNCHANGED <<sim, scenario, uiVars>>
             /\ view'.zoom = view.zoom /\ view'.camera_target = view.camera_target
             /\ view'.tick_added = 0]_vars

\* a render call after quit, with the camera key, the zoom key held down and the pause
\* key newly pressed in a running scenario
C37_Witness ==
    /\ quit /\ calls = <<"render">> /\ view.tick_added = 0
    /\ ~finished /\ ~paused /\ keys_ignored = {}
    /\ \E k \in {"w", "z", " "} : keys_down = {"q", k}


(***************************************************************************)
(* The render loop of the web component, checked under SpecAppLive.        *)
(***************************************************************************)
\* C38: handling a Render message calls game.render once and leaves one new animation-frame
\* request pending in place of the one that delivered the message; no other message
\* changes the pending request or calls game.render; so exactly one request is pending in
\* every state, and Render messages are handled again and again for ever.
C38_RenderLoopGoesOn ==
    /\ [][/\ app'.pending = 1
          /\ IF app'.handler = "render"
               THEN app'.renders = 1 /\ app'.render_task # app.render_task
               ELSE app'.renders = 0 /\ app'.render_task = app.render_task]_vars
    /\ []<><<AppRender>>_vars

\* a frame was rendered after a scenario was started with the user's code
C38_Witness ==
    /\ app.handler = "render" /\ app.renders = 1 /\ app.pending = 1 /\ app.render_task = 0
    /\ app.game = GameStart("tutorial01", "a")

=============================================================================
